---- MODULE Spec2Model ----
(***************************************************************************)
(* Model of MatchesService (grade-ref-backend): the match lifecycle        *)
(* (createMatch / updateMatch / removeMatch with the SMS gateway side      *)
(* effects) and the grading operations.                                    *)
(*                                                                         *)
(* Every handler is an async method; it is modelled as a request that      *)
(* moves from one await to the next, one action per awaited call.  A       *)
(* request keeps its arguments, its locals, the list of calls it has made  *)
(* so far (trace) and the stored matches as they were when it started      *)
(* (dbBefore).                                                             *)
(*                                                                         *)
(* Time is counted in hours since 2024-01-01T00:00Z; the server's zone is  *)
(* taken to be UTC.  Strings are sequences of one-character strings.       *)
(* Reads of the repository always answer; writes of the repository and     *)
(* every call of the SMS gateway may fail.                                 *)
(***************************************************************************)
EXTENDS Integers, Sequences, FiniteSets, TLC

VARIABLES
    db,          \* matchRepository: match id -> Match row
    nextId,      \* next primary key the repository hands out
    scheduled,   \* gateway: scheduled messages that are still pending
    nextSmsId,   \* gateway: next messageId it hands out
    now,         \* wall clock, hours
    req,         \* the requests in flight, one per process
    updateWriteFailed  \* history: a record write of updateMatch has failed

vars == <<db, nextId, scheduled, nextSmsId, now, req, updateWriteFailed>>

----------------------------------------------------------------------------
(* Bounds *)

MaxMatches == 2      \* rows the repository ever creates
MaxSms     == 3      \* messages the gateway ever accepts for scheduling
MaxTail    == 5      \* characters after the key segment of an inbound SMS body
MaxKeyDay  == 730    \* days after 2024-01-01 a key is computed for

Procs    == {1, 2}
SeqProcs == {1}      \* the only process of the one-at-a-time specifications

Leagues  == {1}
ObserverPhones == {"p1"}     \* observerPhoneNumber of createMatch and updateMatch
Phones   == {"p1", "p2"}      \* phoneNumber of removeMatch
LeagueIdxs   == {0}
\* the caller passes the home team's position in the league's roster
HomeTeamIdxs(dto) == {dto.homeTeamId - 1}
Grades   == {0, 5}
\* overallGrade and refereeNote bodies
OverallGrades == {<<"8", ".", "4">>, <<"7", ".", "9">>}
Notes         == {<<"o", "k">>, <<"n", "o">>}

\* report types, the roles and actions of the permission table, report keys
ReportTypes == {"Observer", "Mentor", "Tv"}
Roles       == {"Owner", "Observer", "Referee"}
ActionTypes == {"view", "upload", "delete"}
ReportKeys  == {<<"k", "1">>, <<"k", "2">>}

\* the users handed to getMatchInfo, by id
Users ==
    (1 :> [firstName |-> <<"Ann">>, lastName |-> <<"Ref">>])
    @@ (2 :> [firstName |-> <<"Bob">>, lastName |-> <<"Obs">>])
    @@ (3 :> [firstName |-> <<"Cy">>, lastName |-> <<"Obs">>])
    @@ (4 :> [firstName |-> <<"Di">>, lastName |-> <<"Ref">>])

\* inbound SMS bodies: a key segment followed by a tail
UnknownKey == <<"9", "9">>
TailChars  == {"#", "/", "5", "x"}
SmsTails   == { <<"#", "5", "/", "5">>,
               <<"#", "0", "/", "5">>,
               <<"#", "/", "5">>,
               <<"#", "x", "/", "5">>,
               <<"#", "5">>,
               <<>>,
               <<"#", "5", "/", "5", "#">> }

\* 2024-06-15T18:00Z, 2024-06-15T20:00Z, 2024-06-16T18:00Z
Jun15At18 == 166 * 24 + 18
Jun15At20 == 166 * 24 + 20
Jun16At18 == 167 * 24 + 18

\* dates and indices a key is computed for: every day up to MaxKeyDay at its
\* first and last hour and the turn of the century, with indices at the digit
\* boundaries; and every pair of indices up to 98 on the reference date
KeyDays    == 0..MaxKeyDay \cup {27758, 27759}
EdgeIdxs   == {0, 8, 9, 98}
KeyInputs  ==
    ({d * 24 + h : d \in KeyDays, h \in {0, 23}} \X EdgeIdxs \X EdgeIdxs)
    \cup ({Jun15At18} \X (0..98) \X (0..98))

Dto(date, home, away) ==
    [ matchDate |-> date, homeTeamId |-> home, awayTeamId |-> away,
      stadium |-> <<"A">>, refereeId |-> 1, observerId |-> 2 ]

\* the CreateMatchDto / UpdateMatchDto bodies the requests are drawn from
Dtos == { Dto(Jun15At18, 1, 2),     \* the reference match
          Dto(Jun15At20, 3, 4),     \* same day, no team in common
          Dto(Jun15At18, 1, 3),     \* shares a team with both of the above
          Dto(Jun15At20, 4, 2),     \* away team of the first, home team of the second
          Dto(Jun16At18, 2, 3),     \* the next day
          Dto(Jun15At18, 1, 1) }    \* home team same as away team

NoId   == 0
Null   == -1
NoText == <<>>       \* '' and an absent text: both are falsy

----------------------------------------------------------------------------
(* Program constants *)

MATCH_DURATION == 2
GRADE_ENTRY_TIME_WINDOW == 2 + MATCH_DURATION
OVERALL_GRADE_ENTRY_TIME_WINDOW == 48 + MATCH_DURATION

----------------------------------------------------------------------------
(* Strings and dates *)

DigitChars == <<"0", "1", "2", "3", "4", "5", "6", "7", "8", "9">>

RECURSIVE ToStr(_)
\* String(n) for a natural number n
ToStr(n) == IF n < 10 THEN <<DigitChars[n + 1]>>
            ELSE ToStr(n \div 10) \o <<DigitChars[(n % 10) + 1]>>

\* s.slice(-2)
SliceLast2(s) == IF Len(s) <= 2 THEN s ELSE SubSeq(s, Len(s) - 1, Len(s))

RECURSIVE PadStart2(_)
\* s.padStart(2, '0')
PadStart2(s) == IF Len(s) >= 2 THEN s ELSE PadStart2(<<"0">> \o s)

IsLeap(y) == (y % 4 = 0 /\ y % 100 # 0) \/ y % 400 = 0
YearLen(y) == IF IsLeap(y) THEN 366 ELSE 365
MonthLen(y, m) == IF m = 2 THEN (IF IsLeap(y) THEN 29 ELSE 28)
                  ELSE IF m \in {4, 6, 9, 11} THEN 30 ELSE 31

RECURSIVE YearOfDay(_, _)
YearOfDay(y, d) == IF d < YearLen(y) THEN [year |-> y, doy |-> d]
                   ELSE YearOfDay(y + 1, d - YearLen(y))

RECURSIVE MonthOfDay(_, _, _)
MonthOfDay(y, m, d) == IF d < MonthLen(y, m) THEN [month |-> m, date |-> d + 1]
                       ELSE MonthOfDay(y, m + 1, d - MonthLen(y, m))

\* Date.getUTCFullYear / getUTCMonth() + 1 / getUTCDate of an instant
UTCFullYear(t) == YearOfDay(2024, t \div 24).year
UTCMonth(t)    == MonthOfDay(UTCFullYear(t), 1, YearOfDay(2024, t \div 24).doy).month
UTCDate(t)     == MonthOfDay(UTCFullYear(t), 1, YearOfDay(2024, t \div 24).doy).date

\* dayjs(t).startOf('day') and dayjs(t).endOf('day'), to the hour
StartOfDay(t) == (t \div 24) * 24
EndOfDay(t)   == (t \div 24) * 24 + 23

\* getUserReadableKey without the + 1 on the two indices
getUserReadableKey_NoIndexOffset(dtoDate, leagueIdx, homeTeamIdx) ==
    LET day   == SliceLast2(ToStr(UTCDate(dtoDate)))
        month == SliceLast2(ToStr(UTCMonth(dtoDate)))
        year  == SliceLast2(ToStr(UTCFullYear(dtoDate)))
    IN  PadStart2(day) \o PadStart2(month) \o PadStart2(year)
        \o PadStart2(ToStr(leagueIdx)) \o PadStart2(ToStr(homeTeamIdx))

getUserReadableKey(dtoDate, leagueIdx, homeTeamIdx) ==
    LET day   == SliceLast2(ToStr(UTCDate(dtoDate)))
        month == SliceLast2(ToStr(UTCMonth(dtoDate)))
        year  == SliceLast2(ToStr(UTCFullYear(dtoDate)))
    IN  PadStart2(day) \o PadStart2(month) \o PadStart2(year)
        \o PadStart2(ToStr(leagueIdx + 1)) \o PadStart2(ToStr(homeTeamIdx + 1))

----------------------------------------------------------------------------
(* Records *)

\* the row matchRepository.create({...}) builds in createMatch
NewMatch(id, leagueId, dto, key, smsId) ==
    [ id               |-> id,
      matchDate        |-> dto.matchDate,
      userReadableKey  |-> key,
      stadium          |-> dto.stadium,
      homeTeamId       |-> dto.homeTeamId,
      awayTeamId       |-> dto.awayTeamId,
      refereeId        |-> dto.refereeId,
      observerId       |-> dto.observerId,
      leagueId         |-> leagueId,
      observerSmsId    |-> smsId,
      refereeGrade     |-> Null,
      refereeGradeDate |-> Null,
      overallGrade     |-> NoText,
      overallGradeDate |-> Null,
      refereeNote      |-> NoText,
      observerReportKey |-> NoText,
      mentorReportKey  |-> NoText,
      tvReportKey      |-> NoText ]

NoMatch == [id |-> NoId]
NoDto   == [matchDate |-> Null, homeTeamId |-> NoId, awayTeamId |-> NoId,
            stadium |-> NoText, refereeId |-> NoId, observerId |-> NoId]

Event(call, arg, text, to, ok) ==
    [call |-> call, arg |-> arg, text |-> text, to |-> to, ok |-> ok]

IdleReq ==
    [ op |-> "none", pc |-> "done", result |-> "none",
      matchId |-> NoId, leagueId |-> NoId, dto |-> NoDto,
      leagueIdx |-> 0, homeTeamIdx |-> 0, phone |-> "", grade |-> Null,
      text |-> NoText, role |-> "", reportType |-> "", returned |-> NoText,
      hideObserver |-> FALSE, info |-> NoMatch,
      match |-> NoMatch, matchKey |-> NoText, observerSmsId |-> NoText,
      trace |-> <<>>, dbBefore |-> <<>> ]

Stored == DOMAIN db

Init ==
    /\ db = <<>>
    /\ nextId = 1
    /\ scheduled = {}
    /\ nextSmsId = 1
    /\ now = StartOfDay(Jun15At18)
    /\ updateWriteFailed = FALSE
    /\ req = [p \in Procs |-> IdleReq]

----------------------------------------------------------------------------
(* The repository and the gateway *)

\* JavaScript truthiness of an optional number: undefined, null and 0 are falsy
Truthy(x) == x # Null /\ x # 0
\* JavaScript truthiness of an optional string: undefined, null and '' are falsy
TruthyText(s) == s # NoText

\* unary plus on a stored string: '' is 0, a digit string its value, else NaN
RECURSIVE DigitsValue(_)
DigitsValue(s) ==
    IF s = <<>> THEN 0
    ELSE LET last == s[Len(s)]
             d == CHOOSE i \in 0..9 : DigitChars[i + 1] = last
         IN  10 * DigitsValue(SubSeq(s, 1, Len(s) - 1)) + d

IsDigits(s) == \A i \in 1..Len(s) : \E d \in 1..10 : DigitChars[d] = s[i]
NaN == Null
ToNumber(s) == IF IsDigits(s) THEN DigitsValue(s) ELSE NaN

\* the where-clause of validateMatch looking at home teams only
ConflictRows_HomeOnly(dto) ==
    { i \in Stored :
        /\ db[i].matchDate >= StartOfDay(dto.matchDate)
        /\ db[i].matchDate <= EndOfDay(dto.matchDate)
        /\ db[i].homeTeamId \in {dto.homeTeamId, dto.awayTeamId} }

\* rows the where-clause of validateMatch selects
ConflictRows(dto) ==
    { i \in Stored :
        /\ db[i].matchDate >= StartOfDay(dto.matchDate)
        /\ db[i].matchDate <= EndOfDay(dto.matchDate)
        /\ \/ db[i].homeTeamId \in {dto.homeTeamId, dto.awayTeamId}
           \/ db[i].awayTeamId \in {dto.homeTeamId, dto.awayTeamId} }

\* matchRepository.findOne without an order: any one of the selected rows
FindOneConflict(dto) ==
    IF ConflictRows(dto) = {} THEN {NoMatch} ELSE {db[i] : i \in ConflictRows(dto)}

\* validateMatch without the check of home team against away team
validateMatch_NoSelfCheck(dto, existingId, existingMatch) ==
    IF existingMatch.id # NoId /\ existingMatch.id # existingId THEN "bad_request"
    ELSE "ok"

\* the two checks of validateMatch on the row findOne returned
validateMatch(dto, existingId, existingMatch) ==
    IF dto.homeTeamId = dto.awayTeamId THEN "bad_request"
    ELSE IF existingMatch.id # NoId /\ existingMatch.id # existingId THEN "bad_request"
    ELSE "ok"

getById(matchId) == IF matchId \in Stored THEN db[matchId] ELSE NoMatch

\* getNotNull(x): x, or a not-found error when x is missing
getNotNull(m) == m

\* validateEntryTime(matchDate, hoursWindow): rejects until hoursWindow hours
\* have passed since matchDate
isWithinEntryWindow(referenceTime, windowHours) == now >= referenceTime + windowHours
validateEntryTime(matchDate, hoursWindow) ==
    IF isWithinEntryWindow(matchDate, hoursWindow) THEN "ok" ELSE "bad_request"

\* matchRepository.update(id, partial): rewrites the given columns of the row
RepoUpdate(id, dto, key, smsId) ==
    IF id \in Stored
    THEN [db EXCEPT ![id] = [@ EXCEPT !.matchDate = dto.matchDate,
                                      !.userReadableKey = key,
                                      !.stadium = dto.stadium,
                                      !.homeTeamId = dto.homeTeamId,
                                      !.awayTeamId = dto.awayTeamId,
                                      !.refereeId = dto.refereeId,
                                      !.observerId = dto.observerId,
                                      !.observerSmsId = smsId]]
    ELSE db

\* matchRepository.save(entity)
RepoSave(m) == [i \in Stored \cup {m.id} |-> IF i = m.id THEN m ELSE db[i]]

\* matchRepository.delete(id)
RepoDelete(id) == [i \in Stored \ {id} |-> db[i]]

\* the message scheduleSms asks the gateway to deliver one day before the match
ScheduledMessage(id, dtoDate, messageKey, phoneNumber, forMatch) ==
    [id |-> id, key |-> messageKey, matchDate |-> dtoDate,
     sendDate |-> dtoDate - 24, to |-> phoneNumber, forMatch |-> forMatch]

\* the gateway drops a pending message on a successful cancelMessage
GatewayCancel(smsIdInt) == {m \in scheduled : m.id # smsIdInt}

CanceledText(key) == <<"Match #">> \o key \o <<" has been canceled.">>

\* String.prototype.split with a one-character separator
RECURSIVE Split(_, _)
Split(s, sep) ==
    IF \A i \in 1..Len(s) : s[i] # sep THEN <<s>>
    ELSE LET i == CHOOSE k \in 1..Len(s) :
                      s[k] = sep /\ \A j \in 1..(k - 1) : s[j] # sep
         IN  <<SubSeq(s, 1, i - 1)>> \o Split(SubSeq(s, i + 1, Len(s)), sep)

InvalidSmsFormat      == <<"Invalid sms format.">>
InvalidMatchKey       == <<"Invalid match key.">>
InvalidSmsGradeFormat == <<"Invalid sms grade format.">>
InvalidGrade          == <<"Invalid grade.">>
GradeAlreadyEntered   == <<"Grade has already been entered.">>
BeforeMatchEnd        == <<"Cannot enter a grade before match end.">>
EnteredText(key) == <<"Grade for match ">> \o key \o <<" has been entered.">>

\* requireSmsValid testing the grade before the number of '/' segments
requireSmsValid_GradeFirst(smsText) ==
    LET smsElems == Split(smsText, "#") IN
    IF Len(smsElems) # 2 THEN InvalidSmsFormat
    ELSE IF smsElems[1] = NoText THEN InvalidMatchKey
    ELSE LET gradeElems == Split(smsElems[2], "/") IN
         IF ToNumber(gradeElems[1]) = NaN THEN InvalidGrade
         ELSE IF Len(gradeElems) # 2 THEN InvalidSmsGradeFormat
         ELSE NoText

\* the reply requireSmsValid sends, NoText when it returns true
requireSmsValid(smsText) ==
    LET smsElems == Split(smsText, "#") IN
    IF Len(smsElems) # 2 THEN InvalidSmsFormat
    ELSE IF smsElems[1] = NoText THEN InvalidMatchKey
    ELSE LET gradeElems == Split(smsElems[2], "/") IN
         IF Len(gradeElems) # 2 THEN InvalidSmsGradeFormat
         ELSE IF ToNumber(gradeElems[1]) = NaN THEN InvalidGrade
         ELSE NoText

\* requireSmsMatchKeyValid holding the sender off until the re-entry window
requireSmsMatchKeyValid_EntryWindow(match) ==
    IF match.id = NoId THEN InvalidMatchKey
    ELSE IF Truthy(match.refereeGrade) THEN GradeAlreadyEntered
    ELSE IF now < match.matchDate + GRADE_ENTRY_TIME_WINDOW THEN BeforeMatchEnd
    ELSE NoText

\* the reply requireSmsMatchKeyValid sends, NoText when it returns true
requireSmsMatchKeyValid(match) ==
    IF match.id = NoId THEN InvalidMatchKey
    ELSE IF Truthy(match.refereeGrade) THEN GradeAlreadyEntered
    ELSE IF now < match.matchDate + MATCH_DURATION THEN BeforeMatchEnd
    ELSE NoText

\* +smsText.split('#')[1].split('/')[0]
SmsGrade(smsText) == ToNumber(Split(Split(smsText, "#")[2], "/")[1])

\* the reply requireSmsGradeValid sends, NoText when it returns true
requireSmsGradeValid(smsText) ==
    IF SmsGrade(smsText) = NaN THEN InvalidGrade ELSE NoText

\* rows the where-clause of getByUserReadableKey selects
KeyRows(key) == { i \in Stored : db[i].userReadableKey = key }

\* `${user.firstName} ${user.lastName}`
FullName(user) == user.firstName \o <<" ">> \o user.lastName

\* getMatchInfo hiding the observer of past matches too
getMatchInfo_HidePast(match, referees, observers, hideObserver) ==
    [ id |-> match.id, userReadableKey |-> match.userReadableKey,
      matchDate |-> match.matchDate, stadium |-> match.stadium,
      homeTeamId |-> match.homeTeamId, awayTeamId |-> match.awayTeamId,
      referee |-> FullName(referees[match.refereeId]),
      observer |-> IF hideObserver THEN <<"hidden">>
                   ELSE FullName(observers[match.observerId]),
      leagueId |-> match.leagueId,
      refereeGrade |-> match.refereeGrade,
      refereeGradeDate |-> match.refereeGradeDate,
      refereeNote |-> match.refereeNote,
      overallGrade |-> match.overallGrade,
      overallGradeDate |-> match.overallGradeDate,
      observerReportKey |-> match.observerReportKey,
      mentorReportKey |-> match.mentorReportKey,
      tvReportKey |-> match.tvReportKey ]

\* getMatchInfo(match, referees, observers, hideObserver)
getMatchInfo(match, referees, observers, hideObserver) ==
    LET referee  == referees[match.refereeId]
        observer == observers[match.observerId]
        refereeFullName  == FullName(referee)
        observerFullName == FullName(observer)
        matchIsUpcoming  == match.matchDate > now
    IN
    [ id |-> match.id, userReadableKey |-> match.userReadableKey,
      matchDate |-> match.matchDate, stadium |-> match.stadium,
      homeTeamId |-> match.homeTeamId, awayTeamId |-> match.awayTeamId,
      referee |-> refereeFullName,
      observer |-> IF hideObserver /\ matchIsUpcoming THEN <<"hidden">>
                   ELSE observerFullName,
      leagueId |-> match.leagueId,
      refereeGrade |-> match.refereeGrade,
      refereeGradeDate |-> match.refereeGradeDate,
      refereeNote |-> match.refereeNote,
      overallGrade |-> match.overallGrade,
      overallGradeDate |-> match.overallGradeDate,
      observerReportKey |-> match.observerReportKey,
      mentorReportKey |-> match.mentorReportKey,
      tvReportKey |-> match.tvReportKey ]

\* ReportFieldNames[reportType]: the slot of a report type
ReportFieldNames ==
    ("Observer" :> "observerReportKey") @@ ("Mentor" :> "mentorReportKey")
        @@ ("Tv" :> "tvReportKey")

\* GradeFilePermissions[role][actionType]: the report types a role may act on
GradeFilePermissions ==
    ("Owner" :> [a \in ActionTypes |-> ReportTypes])
    @@ ("Observer" :> (("view" :> ReportTypes) @@ ("upload" :> {"Observer"})
                         @@ ("delete" :> {"Observer"})))
    @@ ("Referee" :> (("view" :> {"Observer", "Mentor"}) @@ ("upload" :> {})
                        @@ ("delete" :> {})))

\* validateUserAction testing the permission to view whatever the action is
validateUserAction_ViewOnly(role, reportType, actionType) ==
    IF reportType \notin GradeFilePermissions[role]["view"]
    THEN "forbidden" ELSE "ok"

\* validateUserAction(user, reportType, actionType)
validateUserAction(role, reportType, actionType) ==
    IF reportType \notin GradeFilePermissions[role][actionType]
    THEN "forbidden" ELSE "ok"

\* updateReportData and removeReport writing the observer slot for every type
ReportedMatch_ObserverSlot(m, reportType, key) ==
    [m EXCEPT !["observerReportKey"] = key]

\* match[ReportFieldNames[reportType]] = key
ReportedMatch(m, reportType, key) ==
    [m EXCEPT ![ReportFieldNames[reportType]] = key]

----------------------------------------------------------------------------------------------------------------------------------------
(* Requests *)

\* createMatch saving the row before it schedules the notification
createMatchSteps_SaveFirst == <<"validateMatch", "save", "scheduleSms">>
\* updateMatch scheduling the new notification before it cancels the old one
updateMatchSteps_ScheduleFirst ==
    <<"validateMatch", "getById", "scheduleSms", "cancelSMS", "update">>
\* updateMatch that does not cancel the old notification
updateMatchSteps_NoCancel == <<"validateMatch", "getById", "scheduleSms", "update">>
\* removeMatch deleting the row before it sends the one-way SMS
removeMatchSteps_DeleteBeforeSms == <<"getById", "cancelSMS", "delete", "sendOneWaySms">>
\* removeMatch deleting the row before it cancels the notification
removeMatchSteps_DeleteFirst == <<"getById", "delete", "cancelSMS", "sendOneWaySms">>

\* the awaited calls of each handler, in the order the handler makes them
createMatchSteps == <<"validateMatch", "scheduleSms", "save">>
updateMatchSteps == <<"validateMatch", "getById", "cancelSMS", "scheduleSms", "update">>
removeMatchSteps == <<"getById", "cancelSMS", "sendOneWaySms", "delete">>
updateGradeSteps == <<"getById", "grade">>
updateOverallGradeSteps == <<"getById", "overallGrade">>
updateRefereeNoteSteps  == <<"getById", "refereeNote">>
getUserReadableKeySteps == <<"getUserReadableKey">>
validateUserActionSteps == <<"validateUserAction">>
updateReportDataSteps   == <<"getById", "saveReport">>
removeReportSteps       == <<"getById", "saveReport">>
getKeyForReportSteps    == <<"getById", "returnKey">>
getMatchInfoSteps       == <<"getMatchInfo">>
updateGradeSmsSteps ==
    << "requireSmsValid", "getByUserReadableKey", "requireSmsMatchKeyValid",
       "requireSmsGradeValid", "saveGrade", "sendEntered" >>

StepsOf(op) ==
    CASE op = "createMatch" -> createMatchSteps
      [] op = "updateMatch" -> updateMatchSteps
      [] op = "removeMatch" -> removeMatchSteps
      [] op = "updateGrade" -> updateGradeSteps
      [] op = "updateOverallGrade" -> updateOverallGradeSteps
      [] op = "updateRefereeNote"  -> updateRefereeNoteSteps
      [] op = "updateGradeSms"     -> updateGradeSmsSteps
      [] op = "getUserReadableKey" -> getUserReadableKeySteps
      [] op = "validateUserAction" -> validateUserActionSteps
      [] op = "updateReportData"   -> updateReportDataSteps
      [] op = "removeReport"       -> removeReportSteps
      [] op = "getKeyForReport"    -> getKeyForReportSteps
      [] op = "getMatchInfo"       -> getMatchInfoSteps

\* a call returned: go on to the handler's next call, or return its result
Continue(r) ==
    LET steps == StepsOf(r.op)
        i == CHOOSE k \in 1..Len(steps) : steps[k] = r.pc
    IN  IF i < Len(steps) THEN [r EXCEPT !.pc = steps[i + 1]]
        ELSE [r EXCEPT !.pc = "done", !.result = "ok"]

\* an early return of a handler that returns nothing
Return(r) == [r EXCEPT !.pc = "done", !.result = "ok"]

\* a call threw: the handler ends with that error
Throw(r, error) == [r EXCEPT !.pc = "done", !.result = error]

Log(r, e) == [r EXCEPT !.trace = Append(@, e)]
SetReq(p, r) == req' = [req EXCEPT ![p] = r]

Begin(op, r) == [r EXCEPT !.op = op, !.pc = StepsOf(op)[1], !.dbBefore = db]

StartCreate(p) ==
    /\ req[p].pc = "done"
    /\ nextId <= MaxMatches
    /\ nextSmsId <= MaxSms
    /\ \E leagueId \in Leagues, dto \in Dtos, leagueIdx \in LeagueIdxs,
          phone \in ObserverPhones : \E homeTeamIdx \in HomeTeamIdxs(dto) :
          SetReq(p, Begin("createMatch",
                          [IdleReq EXCEPT !.leagueId = leagueId, !.dto = dto,
                                          !.leagueIdx = leagueIdx,
                                          !.homeTeamIdx = homeTeamIdx,
                                          !.phone = phone]))
    /\ UNCHANGED <<db, nextId, scheduled, nextSmsId, now, updateWriteFailed>>

StartUpdate(p) ==
    /\ req[p].pc = "done"
    /\ nextSmsId <= MaxSms
    /\ \E matchId \in 1..MaxMatches, dto \in Dtos, leagueIdx \in LeagueIdxs,
          phone \in ObserverPhones : \E homeTeamIdx \in HomeTeamIdxs(dto) :
          SetReq(p, Begin("updateMatch",
                          [IdleReq EXCEPT !.matchId = matchId, !.dto = dto,
                                          !.leagueIdx = leagueIdx,
                                          !.homeTeamIdx = homeTeamIdx,
                                          !.phone = phone]))
    /\ UNCHANGED <<db, nextId, scheduled, nextSmsId, now, updateWriteFailed>>

StartRemove(p) ==
    /\ req[p].pc = "done"
    /\ \E matchId \in 1..MaxMatches, phone \in Phones :
          SetReq(p, Begin("removeMatch",
                          [IdleReq EXCEPT !.matchId = matchId, !.phone = phone]))
    /\ UNCHANGED <<db, nextId, scheduled, nextSmsId, now, updateWriteFailed>>

StartUpdateGrade(p) ==
    /\ req[p].pc = "done"
    /\ \E matchId \in 1..MaxMatches, grade \in Grades :
          SetReq(p, Begin("updateGrade",
                          [IdleReq EXCEPT !.matchId = matchId, !.grade = grade]))
    /\ UNCHANGED <<db, nextId, scheduled, nextSmsId, now, updateWriteFailed>>

\* await this.validateMatch(dto) / await this.validateMatch(dto, params.matchId)
ValidateMatchStep(p) ==
    LET r == req[p] IN
    /\ r.pc = "validateMatch"
    /\ \E existingMatch \in FindOneConflict(r.dto) :
          LET out == validateMatch(r.dto, r.matchId, existingMatch)
              r1  == Log(r, Event("validateMatch", existingMatch.id, NoText, "", out = "ok"))
          IN  SetReq(p, IF out = "ok" THEN Continue(r1) ELSE Throw(r1, out))
    /\ UNCHANGED <<db, nextId, scheduled, nextSmsId, now, updateWriteFailed>>

\* getNotNull(await this.getById(params.matchId))
GetByIdStep(p) ==
    LET r == req[p]
        m == getNotNull(getById(r.matchId))
        r1 == Log(r, Event("getById", r.matchId, NoText, "", m.id # NoId))
    IN
    /\ r.pc = "getById"
    /\ SetReq(p, IF m.id # NoId THEN Continue([r1 EXCEPT !.match = m])
                  ELSE Throw(r1, "not_found"))
    /\ UNCHANGED <<db, nextId, scheduled, nextSmsId, now, updateWriteFailed>>

\* await this.cancelSMS(match.observerSmsId)
\* The gateway answers 200 or not; the repository does not determine its answer
\* for an id that is no longer pending, so both answers are possible there too.
CancelStep(p) ==
    LET r == req[p]
        smsIdInt == ToNumber(r.match.observerSmsId)
    IN
    /\ r.pc = "cancelSMS"
    /\ \E ok \in BOOLEAN :
          LET r1 == Log(r, Event("cancelSMS", smsIdInt, NoText, "", ok)) IN
          /\ scheduled' = IF ok THEN GatewayCancel(smsIdInt) ELSE scheduled
          /\ SetReq(p, IF ok THEN Continue(r1) ELSE Throw(r1, "service_unavailable"))
    /\ UNCHANGED <<db, nextId, nextSmsId, now, updateWriteFailed>>

\* matchKey = getUserReadableKey(...); observerSmsId = await this.scheduleSms(...)
ScheduleStep(p) ==
    LET r == req[p]
        matchKey == getUserReadableKey(r.dto.matchDate, r.leagueIdx, r.homeTeamIdx)
    IN
    /\ r.pc = "scheduleSms"
    /\ \E ok \in BOOLEAN :
          LET r1 == Log(r, Event("scheduleSms", IF ok THEN nextSmsId ELSE NoId,
                                 matchKey, r.phone, ok)) IN
          /\ scheduled' = IF ok
                THEN scheduled \cup {ScheduledMessage(nextSmsId, r.dto.matchDate,
                                                      matchKey, r.phone, r.matchId)}
                ELSE scheduled
          /\ nextSmsId' = IF ok THEN nextSmsId + 1 ELSE nextSmsId
          /\ SetReq(p, IF ok THEN Continue([r1 EXCEPT !.matchKey = matchKey,
                                                      !.observerSmsId = ToStr(nextSmsId)])
                        ELSE Throw(r1, "service_unavailable"))
    /\ UNCHANGED <<db, nextId, now, updateWriteFailed>>

\* the row createMatch saves
CreatedRow(r, id) ==
    NewMatch(id, r.leagueId, r.dto,
             getUserReadableKey(r.dto.matchDate, r.leagueIdx, r.homeTeamIdx),
             r.observerSmsId)

\* createMatch cancelling its notification when the save fails
SaveStep_CancelOnFailure(p) ==
    LET r == req[p] IN
    /\ r.pc = "save"
    /\ \E ok \in BOOLEAN :
          LET r1 == Log(r, Event("save", IF ok THEN nextId ELSE NoId, NoText, "", ok)) IN
          /\ db' = IF ok THEN RepoSave(CreatedRow(r, nextId)) ELSE db
          /\ nextId' = IF ok THEN nextId + 1 ELSE nextId
          /\ scheduled' = IF ok
                THEN {IF ToStr(m.id) = r.observerSmsId
                      THEN [m EXCEPT !.forMatch = nextId] ELSE m : m \in scheduled}
                ELSE GatewayCancel(ToNumber(r.observerSmsId))
          /\ SetReq(p, IF ok THEN Continue([r1 EXCEPT !.matchId = nextId])
                        ELSE Throw(r1, "storage_error"))
    /\ UNCHANGED <<nextSmsId, now, updateWriteFailed>>

\* return this.matchRepository.save(match)   (createMatch)
SaveStep(p) ==
    LET r == req[p] IN
    /\ r.pc = "save"
    /\ \E ok \in BOOLEAN :
          LET r1 == Log(r, Event("save", IF ok THEN nextId ELSE NoId, NoText, "", ok)) IN
          /\ db' = IF ok THEN RepoSave(CreatedRow(r, nextId)) ELSE db
          /\ nextId' = IF ok THEN nextId + 1 ELSE nextId
          /\ scheduled' = IF ok
                THEN {IF ToStr(m.id) = r.observerSmsId
                      THEN [m EXCEPT !.forMatch = nextId] ELSE m : m \in scheduled}
                ELSE scheduled
          /\ SetReq(p, IF ok THEN Continue([r1 EXCEPT !.matchId = nextId])
                        ELSE Throw(r1, "storage_error"))
    /\ UNCHANGED <<nextSmsId, now, updateWriteFailed>>

\* updateMatch writing back the id it read instead of the id it was given
UpdatedDb_KeepSmsId(r) ==
    RepoUpdate(r.matchId, r.dto,
               getUserReadableKey(r.dto.matchDate, r.leagueIdx, r.homeTeamIdx),
               r.match.observerSmsId)

\* the columns updateMatch writes
UpdatedDb(r) ==
    RepoUpdate(r.matchId, r.dto,
               getUserReadableKey(r.dto.matchDate, r.leagueIdx, r.homeTeamIdx),
               r.observerSmsId)

\* await this.matchRepository.update(...); return this.getById(params.matchId)
UpdateStep(p) ==
    LET r == req[p] IN
    /\ r.pc = "update"
    /\ \E ok \in BOOLEAN :
          LET r1 == Log(r, Event("update", r.matchId, NoText, "", ok)) IN
          /\ db' = IF ok THEN UpdatedDb(r) ELSE db
          /\ updateWriteFailed' = (updateWriteFailed \/ ~ok)
          /\ SetReq(p, IF ok THEN Continue(r1) ELSE Throw(r1, "storage_error"))
    /\ UNCHANGED <<nextId, scheduled, nextSmsId, now>>

\* await this.sendOneWaySms(phoneNumber, `Match #${key} has been canceled.`)
SendCanceledStep(p) ==
    LET r == req[p] IN
    /\ r.pc = "sendOneWaySms"
    /\ \E ok \in BOOLEAN :
          LET r1 == Log(r, Event("sendOneWaySms", NoId,
                                 CanceledText(r.match.userReadableKey), r.phone, ok)) IN
          SetReq(p, IF ok THEN Continue(r1) ELSE Throw(r1, "service_unavailable"))
    /\ UNCHANGED <<db, nextId, scheduled, nextSmsId, now, updateWriteFailed>>

\* await this.matchRepository.delete(params.matchId); return match
DeleteStep(p) ==
    LET r == req[p] IN
    /\ r.pc = "delete"
    /\ \E ok \in BOOLEAN :
          LET r1 == Log(r, Event("delete", r.matchId, NoText, "", ok)) IN
          /\ db' = IF ok THEN RepoDelete(r.matchId) ELSE db
          /\ SetReq(p, IF ok THEN Continue(r1) ELSE Throw(r1, "storage_error"))
    /\ UNCHANGED <<nextId, scheduled, nextSmsId, now, updateWriteFailed>>

\* the referee grade written without its date
GradedMatch_NoDate(m, grade) == [m EXCEPT !.refereeGrade = grade]

\* match.refereeGrade = dto.refereeGrade; match.refereeGradeDate = new Date()
GradedMatch(m, grade) == [m EXCEPT !.refereeGrade = grade, !.refereeGradeDate = now]

\* updateGrade after the read: the window check, the two assignments, the save
GradeStep(p) ==
    LET r == req[p]
        blocked == /\ Truthy(r.match.refereeGrade)
                   /\ validateEntryTime(r.match.matchDate, GRADE_ENTRY_TIME_WINDOW) # "ok"
        match == GradedMatch(r.match, r.grade)
    IN
    /\ r.pc = "grade"
    /\ \E ok \in BOOLEAN :
          LET r1 == Log(r, Event("grade", now, NoText, "", ~blocked /\ ok)) IN
          /\ db' = IF ~blocked /\ ok THEN RepoSave(match) ELSE db
          /\ SetReq(p, IF blocked THEN Throw(r1, "bad_request")
                        ELSE IF ok THEN Continue([r1 EXCEPT !.match = match])
                        ELSE Throw(r1, "storage_error"))
    /\ UNCHANGED <<nextId, scheduled, nextSmsId, now, updateWriteFailed>>

StartUpdateOverallGrade(p) ==
    /\ req[p].pc = "done"
    /\ \E matchId \in 1..MaxMatches, overallGrade \in OverallGrades :
          SetReq(p, Begin("updateOverallGrade",
                          [IdleReq EXCEPT !.matchId = matchId, !.text = overallGrade]))
    /\ UNCHANGED <<db, nextId, scheduled, nextSmsId, now, updateWriteFailed>>

StartUpdateRefereeNote(p) ==
    /\ req[p].pc = "done"
    /\ \E matchId \in 1..MaxMatches, refereeNote \in Notes :
          SetReq(p, Begin("updateRefereeNote",
                          [IdleReq EXCEPT !.matchId = matchId, !.text = refereeNote]))
    /\ UNCHANGED <<db, nextId, scheduled, nextSmsId, now, updateWriteFailed>>

\* updateOverallGrade guarding with the referee grade and its window
OverallBlocked_RefereeWindow(m) ==
    /\ Truthy(m.refereeGrade)
    /\ validateEntryTime(m.matchDate, GRADE_ENTRY_TIME_WINDOW) # "ok"

\* if (match.overallGrade) validateEntryTime(match.matchDate, OVERALL_...)
OverallBlocked(m) ==
    /\ TruthyText(m.overallGrade)
    /\ validateEntryTime(m.matchDate, OVERALL_GRADE_ENTRY_TIME_WINDOW) # "ok"

\* updateOverallGrade stamping the referee grade's date
OverallGradedMatch_WrongDate(m, overallGrade) ==
    [m EXCEPT !.overallGrade = overallGrade, !.refereeGradeDate = now]

\* match.overallGrade = dto.overallGrade; match.overallGradeDate = new Date()
OverallGradedMatch(m, overallGrade) ==
    [m EXCEPT !.overallGrade = overallGrade, !.overallGradeDate = now]

\* match.refereeNote = dto.refereeNote
NotedMatch(m, refereeNote) == [m EXCEPT !.refereeNote = refereeNote]

\* updateOverallGrade after the read: the window check, the assignments, the save
OverallGradeStep(p) ==
    LET r == req[p]
        blocked == OverallBlocked(r.match)
        match == OverallGradedMatch(r.match, r.text)
    IN
    /\ r.pc = "overallGrade"
    /\ \E ok \in BOOLEAN :
          LET r1 == Log(r, Event("overallGrade", now, NoText, "", ~blocked /\ ok)) IN
          /\ db' = IF ~blocked /\ ok THEN RepoSave(match) ELSE db
          /\ SetReq(p, IF blocked THEN Throw(r1, "bad_request")
                        ELSE IF ok THEN Continue(r1)
                        ELSE Throw(r1, "storage_error"))
    /\ UNCHANGED <<nextId, scheduled, nextSmsId, now, updateWriteFailed>>

\* updateRefereeNote after the read: the assignment, the save
RefereeNoteStep(p) ==
    LET r == req[p]
        match == NotedMatch(r.match, r.text)
    IN
    /\ r.pc = "refereeNote"
    /\ \E ok \in BOOLEAN :
          LET r1 == Log(r, Event("refereeNote", now, NoText, "", ok)) IN
          /\ db' = IF ok THEN RepoSave(match) ELSE db
          /\ SetReq(p, IF ok THEN Continue(r1) ELSE Throw(r1, "storage_error"))
    /\ UNCHANGED <<nextId, scheduled, nextSmsId, now, updateWriteFailed>>

\* updateGradeSms(gradeMessage, observer) is called
SmsKeys ==
    {db[i].userReadableKey : i \in Stored \cap 1..MaxMatches} \cup {NoText, UnknownKey}
SmsRequest(msg, phone) ==
    Begin("updateGradeSms", [IdleReq EXCEPT !.text = msg, !.phone = phone])

StartUpdateGradeSms(p) ==
    /\ req[p].pc = "done"
    /\ \E key \in SmsKeys, tail \in SmsTails, phone \in ObserverPhones :
          SetReq(p, SmsRequest(key \o tail, phone))
    /\ UNCHANGED <<db, nextId, scheduled, nextSmsId, now, updateWriteFailed>>

\* one of the three require... calls: it returns true, or it awaits
\* sendOneWaySms with its reply and returns false, which ends updateGradeSms
RequireStep(p, check, reply) ==
    LET r == req[p]
        r1 == Log(r, Event(check, now, NoText, "", reply = NoText))
    IN
    /\ r.pc = check
    /\ IF reply = NoText THEN SetReq(p, Continue(r1))
       ELSE \E ok \in BOOLEAN :
               LET r2 == Log(r1, Event("sendOneWaySms", NoId, reply, r.phone, ok)) IN
               SetReq(p, IF ok THEN Return(r2) ELSE Throw(r2, "service_unavailable"))
    /\ UNCHANGED <<db, nextId, scheduled, nextSmsId, now, updateWriteFailed>>

RequireSmsValidStep(p) ==
    RequireStep(p, "requireSmsValid", requireSmsValid(req[p].text))

\* const match = await this.getByUserReadableKey(gradeMessage.msg.split('#')[0])
\* findOne has no ORDER BY: any row with the key may be the one returned
GetByUserReadableKeyStep(p) ==
    LET r == req[p]
        matchKey == Split(r.text, "#")[1]
    IN
    /\ r.pc = "getByUserReadableKey"
    /\ \E m \in IF KeyRows(matchKey) = {} THEN {NoMatch}
                  ELSE {db[i] : i \in KeyRows(matchKey)} :
          SetReq(p, Continue([Log(r, Event("getByUserReadableKey", m.id, matchKey,
                                           "", m.id # NoId))
                                 EXCEPT !.match = m, !.matchKey = matchKey]))
    /\ UNCHANGED <<db, nextId, scheduled, nextSmsId, now, updateWriteFailed>>

RequireSmsMatchKeyValidStep(p) ==
    RequireStep(p, "requireSmsMatchKeyValid", requireSmsMatchKeyValid(req[p].match))

RequireSmsGradeValidStep(p) ==
    RequireStep(p, "requireSmsGradeValid", requireSmsGradeValid(req[p].text))

\* the two assignments and await this.matchRepository.save(match)
SaveGradeStep(p) ==
    LET r == req[p]
        grade == SmsGrade(r.text)
        match == GradedMatch(r.match, grade)
    IN
    /\ r.pc = "saveGrade"
    /\ \E ok \in BOOLEAN :
          LET r1 == Log(r, Event("saveGrade", now, NoText, "", ok)) IN
          /\ db' = IF ok THEN RepoSave(match) ELSE db
          /\ SetReq(p, IF ok THEN Continue([r1 EXCEPT !.grade = grade])
                        ELSE Throw(r1, "storage_error"))
    /\ UNCHANGED <<nextId, scheduled, nextSmsId, now, updateWriteFailed>>

\* await this.sendOneWaySms(observer.phoneNumber, `Grade for match ... entered.`)
SendEnteredStep(p) ==
    LET r == req[p] IN
    /\ r.pc = "sendEntered"
    /\ \E ok \in BOOLEAN :
          LET r1 == Log(r, Event("sendOneWaySms", NoId,
                                 EnteredText(r.match.userReadableKey), r.phone, ok)) IN
          SetReq(p, IF ok THEN Continue(r1) ELSE Throw(r1, "service_unavailable"))
    /\ UNCHANGED <<db, nextId, scheduled, nextSmsId, now, updateWriteFailed>>

\* updateGradeSms after it was called
UpdateGradeSmsSteps(p) ==
    \/ RequireSmsValidStep(p)
    \/ GetByUserReadableKeyStep(p)
    \/ RequireSmsMatchKeyValidStep(p)
    \/ RequireSmsGradeValidStep(p)
    \/ SaveGradeStep(p)
    \/ SendEnteredStep(p)

\* the action a report operation is for its user
ActionOf(op) ==
    CASE op = "updateReportData" -> "upload"
      [] op = "removeReport"     -> "delete"
      [] op = "getKeyForReport"  -> "view"

\* validateUserAction(user, reportType, actionType) is called
StartValidateUserAction(p) ==
    /\ req[p].pc = "done"
    /\ \E role \in Roles, reportType \in ReportTypes, actionType \in ActionTypes :
          SetReq(p, Begin("validateUserAction",
                          [IdleReq EXCEPT !.role = role, !.reportType = reportType,
                                          !.text = <<actionType>>]))
    /\ UNCHANGED <<db, nextId, scheduled, nextSmsId, now, updateWriteFailed>>

\* it throws or returns
ValidateUserActionStep(p) ==
    LET r == req[p]
        out == validateUserAction(r.role, r.reportType, r.text[1])
        r1 == Log(r, Event("validateUserAction", NoId, NoText, "", out = "ok"))
    IN
    /\ r.pc = "validateUserAction"
    /\ SetReq(p, IF out = "ok" THEN Continue(r1) ELSE Throw(r1, out))
    /\ UNCHANGED <<db, nextId, scheduled, nextSmsId, now, updateWriteFailed>>

\* updateReportData(matchId, reportType, key) is called for a user of some role
StartUpdateReportData(p) ==
    /\ req[p].pc = "done"
    /\ \E matchId \in 1..MaxMatches, reportType \in ReportTypes,
          key \in ReportKeys, role \in Roles :
          SetReq(p, Begin("updateReportData",
                          [IdleReq EXCEPT !.matchId = matchId, !.reportType = reportType,
                                          !.text = key, !.role = role]))
    /\ UNCHANGED <<db, nextId, scheduled, nextSmsId, now, updateWriteFailed>>

\* removeReport(matchId, reportType) is called for a user of some role
StartRemoveReport(p) ==
    /\ req[p].pc = "done"
    /\ \E matchId \in 1..MaxMatches, reportType \in ReportTypes, role \in Roles :
          SetReq(p, Begin("removeReport",
                          [IdleReq EXCEPT !.matchId = matchId, !.reportType = reportType,
                                          !.role = role]))
    /\ UNCHANGED <<db, nextId, scheduled, nextSmsId, now, updateWriteFailed>>

\* getKeyForReport(matchId, reportType) is called for a user of some role
StartGetKeyForReport(p) ==
    /\ req[p].pc = "done"
    /\ \E matchId \in 1..MaxMatches, reportType \in ReportTypes, role \in Roles :
          SetReq(p, Begin("getKeyForReport",
                          [IdleReq EXCEPT !.matchId = matchId, !.reportType = reportType,
                                          !.role = role]))
    /\ UNCHANGED <<db, nextId, scheduled, nextSmsId, now, updateWriteFailed>>

\* match[reportFieldName] = key (null in removeReport); return save(match)
SaveReportStep(p) ==
    LET r == req[p]
        match == ReportedMatch(r.match, r.reportType,
                               IF r.op = "removeReport" THEN NoText ELSE r.text)
    IN
    /\ r.pc = "saveReport"
    /\ \E ok \in BOOLEAN :
          LET r1 == Log(r, Event("saveReport", r.matchId, NoText, "", ok)) IN
          /\ db' = IF ok THEN RepoSave(match) ELSE db
          /\ SetReq(p, IF ok THEN Continue(r1) ELSE Throw(r1, "storage_error"))
    /\ UNCHANGED <<nextId, scheduled, nextSmsId, now, updateWriteFailed>>

\* return match[reportFieldName]
ReturnKeyStep(p) ==
    LET r == req[p] IN
    /\ r.pc = "returnKey"
    /\ SetReq(p, Continue([r EXCEPT !.returned =
                                       r.match[ReportFieldNames[r.reportType]]]))
    /\ UNCHANGED <<db, nextId, scheduled, nextSmsId, now, updateWriteFailed>>

\* getMatchInfo(match, referees, observers, hideObserver) returns
GetMatchInfoStep(p) ==
    LET r == req[p] IN
    /\ r.pc = "getMatchInfo"
    /\ SetReq(p, Continue([r EXCEPT !.info =
                                       getMatchInfo(r.match, Users, Users,
                                                    r.hideObserver)]))
    /\ UNCHANGED <<db, nextId, scheduled, nextSmsId, now, updateWriteFailed>>

\* getUserReadableKey(dtoDate, leagueIdx, homeTeamIdx) returns
GetUserReadableKeyStep(p) ==
    LET r == req[p] IN
    /\ r.pc = "getUserReadableKey"
    /\ SetReq(p, Continue([r EXCEPT !.matchKey =
                   getUserReadableKey(r.dto.matchDate, r.leagueIdx, r.homeTeamIdx)]))
    /\ UNCHANGED <<db, nextId, scheduled, nextSmsId, now, updateWriteFailed>>

\* hours after the start of a match at which the clock is looked at
ClockOffsets ==
    { 0, MATCH_DURATION - 1, MATCH_DURATION,
      GRADE_ENTRY_TIME_WINDOW - 1, GRADE_ENTRY_TIME_WINDOW, GRADE_ENTRY_TIME_WINDOW + 1,
      OVERALL_GRADE_ENTRY_TIME_WINDOW - 1, OVERALL_GRADE_ENTRY_TIME_WINDOW,
      OVERALL_GRADE_ENTRY_TIME_WINDOW + 1 }

\* time passes
Tick ==
    /\ \E i \in Stored, k \in ClockOffsets :
          /\ db[i].matchDate + k > now
          /\ now' = db[i].matchDate + k
    /\ UNCHANGED <<db, nextId, scheduled, nextSmsId, req, updateWriteFailed>>

----------------------------------------------------------------------------
(* createMatch, updateMatch and removeMatch, one request at a time *)

Next ==
    \E p \in SeqProcs :
        \/ StartCreate(p)
        \/ StartUpdate(p)
        \/ StartRemove(p)
        \/ ValidateMatchStep(p)
        \/ GetByIdStep(p)
        \/ CancelStep(p)
        \/ ScheduleStep(p)
        \/ SaveStep(p)
        \/ UpdateStep(p)
        \/ SendCanceledStep(p)
        \/ DeleteStep(p)

Spec == Init /\ [][Next]_vars

----------------------------------------------------------------------------
(* updateGrade on a stored match while time passes, one request at a time *)

\* a match createMatch has stored, its notification pending at the gateway
InitGrade ==
    \E dto \in Dtos, leagueId \in Leagues, leagueIdx \in LeagueIdxs,
       phone \in ObserverPhones : \E homeTeamIdx \in HomeTeamIdxs(dto) :
        LET key == getUserReadableKey(dto.matchDate, leagueIdx, homeTeamIdx)
            row == NewMatch(1, leagueId, dto, key, ToStr(1))
        IN  /\ validateMatch(dto, NoId, NoMatch) = "ok"
            /\ db = (1 :> row)
            /\ nextId = 2
            /\ scheduled = {ScheduledMessage(1, dto.matchDate, key, phone, 1)}
            /\ nextSmsId = 2
            /\ now = StartOfDay(dto.matchDate)
            /\ updateWriteFailed = FALSE
            /\ req = [p \in Procs |-> IdleReq]

NextGrade ==
    \/ Tick
    \/ \E p \in SeqProcs :
        \/ StartUpdateGrade(p)
        \/ GetByIdStep(p)
        \/ GradeStep(p)

SpecGrade == InitGrade /\ [][NextGrade]_vars

----------------------------------------------------------------------------
(* The three grading operations of the API on one stored match *)

\* the reference match as createMatch stores it, and a second one
TwoMatches(clock) ==
    \E leagueId \in Leagues, leagueIdx \in LeagueIdxs, phone \in ObserverPhones :
        LET dto   == Dto(Jun15At18, 1, 2)
            key   == getUserReadableKey(dto.matchDate, leagueIdx, 0)
            other == MaxMatches + 1      \* a match no request of this run names
            dto2  == Dto(Jun15At18, 3, 4)
            key2  == getUserReadableKey(dto2.matchDate, leagueIdx, 2)
        IN  /\ db = (1 :> NewMatch(1, leagueId, dto, key, ToStr(1)))
                      @@ (other :> NewMatch(other, leagueId, dto2, key2, ToStr(2)))
            /\ nextId = other + 1
            /\ scheduled = { ScheduledMessage(1, dto.matchDate, key, phone, 1),
                             ScheduledMessage(2, dto2.matchDate, key2, phone, other) }
            /\ nextSmsId = 3
            /\ now = clock
            /\ updateWriteFailed = FALSE

InitGrading ==
    /\ TwoMatches(StartOfDay(Jun15At18))
    /\ req = [p \in Procs |-> IdleReq]

NextGrading ==
    \/ Tick
    \/ \E p \in SeqProcs :
        \/ StartUpdateGrade(p)
        \/ StartUpdateOverallGrade(p)
        \/ StartUpdateRefereeNote(p)
        \/ GetByIdStep(p)
        \/ GradeStep(p)
        \/ OverallGradeStep(p)
        \/ RefereeNoteStep(p)

SpecGrading == InitGrading /\ [][NextGrading]_vars

----------------------------------------------------------------------------
(* Grades entered by inbound SMS and by the API *)

NextSms ==
    \/ Tick
    \/ \E p \in SeqProcs :
        \/ StartUpdateGradeSms(p)
        \/ UpdateGradeSmsSteps(p)
        \/ StartUpdateGrade(p)
        \/ GetByIdStep(p)
        \/ GradeStep(p)

SpecSms == InitGrading /\ [][NextSms]_vars

----------------------------------------------------------------------------
(* One inbound SMS, for every body of a bounded shape, the match being over *)

RECURSIVE TailsOfLen(_)
TailsOfLen(n) ==
    IF n = 0 THEN {<<>>}
    ELSE {Append(s, c) : s \in TailsOfLen(n - 1), c \in TailChars}
AllTails == UNION {TailsOfLen(n) : n \in 0..MaxTail}

\* one updateGradeSms call with a body of that shape has just been made
InitSmsText ==
    /\ TwoMatches(Jun15At18 + MATCH_DURATION)
    /\ \E key \in SmsKeys, tail \in AllTails, phone \in ObserverPhones :
          req = [p \in Procs |-> IF p \in SeqProcs THEN SmsRequest(key \o tail, phone)
                                 ELSE IdleReq]

NextSmsText == \E p \in SeqProcs : UpdateGradeSmsSteps(p)

SpecSmsText == InitSmsText /\ [][NextSmsText]_vars

----------------------------------------------------------------------------
(* getUserReadableKey on its own, for bounded dates and indices *)

InitKey ==
    /\ db = <<>>
    /\ nextId = 1
    /\ scheduled = {}
    /\ nextSmsId = 1
    /\ now = StartOfDay(Jun15At18)
    /\ updateWriteFailed = FALSE
    /\ \E in \in KeyInputs :
          req = [p \in Procs |->
                   IF p \in SeqProcs
                   THEN Begin("getUserReadableKey",
                              [IdleReq EXCEPT !.dto = Dto(in[1], 1, 2),
                                              !.leagueIdx = in[2],
                                              !.homeTeamIdx = in[3]])
                   ELSE IdleReq]

NextKey == \E p \in SeqProcs : GetUserReadableKeyStep(p)

SpecKey == InitKey /\ [][NextKey]_vars

\* indices around the point where index + 1 takes a third digit
OverflowIdxs == {0, 98, 99, 100, 998, 999}

InitKeyOverflow ==
    /\ db = <<>>
    /\ nextId = 1
    /\ scheduled = {}
    /\ nextSmsId = 1
    /\ now = StartOfDay(Jun15At18)
    /\ updateWriteFailed = FALSE
    /\ \E date \in {Jun15At18, Jun15At20, Jun16At18},
          leagueIdx \in OverflowIdxs, homeTeamIdx \in OverflowIdxs :
          req = [p \in Procs |->
                   IF p \in SeqProcs
                   THEN Begin("getUserReadableKey",
                              [IdleReq EXCEPT !.dto = Dto(date, 1, 2),
                                              !.leagueIdx = leagueIdx,
                                              !.homeTeamIdx = homeTeamIdx])
                   ELSE IdleReq]

SpecKeyOverflow == InitKeyOverflow /\ [][NextKey]_vars

----------------------------------------------------------------------------
(* The report operations and the permission check, one call at a time *)

InitReport ==
    /\ TwoMatches(StartOfDay(Jun15At18))
    /\ req = [p \in Procs |-> IdleReq]

NextReport ==
    \E p \in SeqProcs :
        \/ StartValidateUserAction(p)
        \/ ValidateUserActionStep(p)
        \/ StartUpdateReportData(p)
        \/ StartRemoveReport(p)
        \/ StartGetKeyForReport(p)
        \/ GetByIdStep(p)
        \/ SaveReportStep(p)
        \/ ReturnKeyStep(p)

SpecReport == InitReport /\ [][NextReport]_vars

----------------------------------------------------------------------------
(* getMatchInfo on one match: the match, the clock and the flag are drawn *)

\* match rows seen by getMatchInfo: graded or not, with or without a report
InfoMatches ==
    { [NewMatch(1, 1, Dto(date, 1, 2), getUserReadableKey(date, 0, 0), "1")
          EXCEPT !.refereeId = refereeId, !.observerId = observerId,
                 !.refereeGrade = grade,
                 !.refereeGradeDate = IF grade = Null THEN Null ELSE date + 3,
                 !.observerReportKey = key] :
        date \in {Jun15At18, Jun15At20}, refereeId \in {1, 4},
        observerId \in {2, 3}, grade \in {Null, 5},
        key \in {NoText, <<"k", "1">>} }

InitInfo ==
    /\ \E clock \in {Jun15At18 - 1, Jun15At18, Jun15At18 + 1} : TwoMatches(clock)
    /\ \E match \in InfoMatches, hideObserver \in BOOLEAN :
          req = [p \in Procs |->
                   IF p \in SeqProcs
                   THEN Begin("getMatchInfo",
                              [IdleReq EXCEPT !.match = match,
                                              !.hideObserver = hideObserver])
                   ELSE IdleReq]

NextInfo == \E p \in SeqProcs : GetMatchInfoStep(p)

SpecInfo == InitInfo /\ [][NextInfo]_vars

----------------------------------------------------------------------------
(* Two requests in flight at once: their steps interleave freely *)

\* one stored match with its pending notification
OneMatch ==
    \E leagueId \in Leagues, leagueIdx \in LeagueIdxs, phone \in ObserverPhones :
        LET dto == Dto(Jun15At18, 1, 2)
            key == getUserReadableKey(dto.matchDate, leagueIdx, 0)
        IN  /\ db = (1 :> NewMatch(1, leagueId, dto, key, ToStr(1)))
            /\ nextId = 2
            /\ scheduled = {ScheduledMessage(1, dto.matchDate, key, phone, 1)}
            /\ nextSmsId = 2
            /\ now = StartOfDay(Jun15At18)
            /\ updateWriteFailed = FALSE

\* both callers have entered createMatch, each with a body of its own
InitCreateRace ==
    /\ OneMatch
    /\ \E leagueId \in Leagues, leagueIdx \in LeagueIdxs, phone \in ObserverPhones :
        \E dtos \in [Procs -> Dtos] :
          req = [p \in Procs |->
                   Begin("createMatch",
                         [IdleReq EXCEPT !.leagueId = leagueId, !.dto = dtos[p],
                                         !.leagueIdx = leagueIdx,
                                         !.homeTeamIdx = dtos[p].homeTeamId - 1,
                                         !.phone = phone])]

NextCreateRace ==
    \E p \in Procs :
        \/ ValidateMatchStep(p)
        \/ ScheduleStep(p)
        \/ SaveStep(p)

SpecCreateRace == InitCreateRace /\ [][NextCreateRace]_vars

----------------------------------------------------------------------------
(* removeMatch on matches whose stored observerSmsId may not be a number *)

\* the observerSmsId a stored row may carry: an id of the gateway, a text
\* that is not a number, the empty text
StoredSmsIds == {ToStr(1), <<"x">>, <<>>}

InitCancel ==
    /\ \E smsId \in StoredSmsIds :
        \E leagueId \in Leagues, leagueIdx \in LeagueIdxs, phone \in ObserverPhones :
          LET dto  == Dto(Jun15At18, 1, 2)
              key  == getUserReadableKey(dto.matchDate, leagueIdx, 0)
              dto2 == Dto(Jun16At18, 2, 3)
              key2 == getUserReadableKey(dto2.matchDate, leagueIdx, 1)
          IN  /\ db = (1 :> NewMatch(1, leagueId, dto, key, smsId))
                        @@ (2 :> NewMatch(2, leagueId, dto2, key2, ToStr(2)))
              /\ scheduled = { ScheduledMessage(1, dto.matchDate, key, phone, 1),
                               ScheduledMessage(2, dto2.matchDate, key2, phone, 2) }
    /\ nextId = 3
    /\ nextSmsId = 3
    /\ now = StartOfDay(Jun15At18)
    /\ updateWriteFailed = FALSE
    /\ req = [p \in Procs |-> IdleReq]

NextCancel ==
    \E p \in SeqProcs :
        \/ StartRemove(p)
        \/ GetByIdStep(p)
        \/ CancelStep(p)
        \/ SendCanceledStep(p)
        \/ DeleteStep(p)

SpecCancel == InitCancel /\ [][NextCancel]_vars

\* two inbound SMS naming the first stored match, the match being over, are
\* both being handled
InitSmsRace ==
    /\ TwoMatches(Jun15At18 + MATCH_DURATION)
    /\ \E tails \in [Procs -> SmsTails], phone \in ObserverPhones :
          req = [p \in Procs |-> SmsRequest(db[1].userReadableKey \o tails[p], phone)]

NextSmsRace == \E p \in Procs : UpdateGradeSmsSteps(p)

SpecSmsRace == InitSmsRace /\ [][NextSmsRace]_vars

\* both callers have entered updateMatch on the stored match, each with a
\* body of its own
InitUpdateRace ==
    /\ OneMatch
    /\ \E leagueIdx \in LeagueIdxs, phone \in ObserverPhones :
        \E dtos \in [Procs -> Dtos] :
          req = [p \in Procs |->
                   Begin("updateMatch",
                         [IdleReq EXCEPT !.matchId = 1, !.dto = dtos[p],
                                         !.leagueIdx = leagueIdx,
                                         !.homeTeamIdx = dtos[p].homeTeamId - 1,
                                         !.phone = phone])]

NextUpdateRace ==
    \E p \in Procs :
        \/ ValidateMatchStep(p)
        \/ GetByIdStep(p)
        \/ CancelStep(p)
        \/ ScheduleStep(p)
        \/ UpdateStep(p)

SpecUpdateRace == InitUpdateRace /\ [][NextUpdateRace]_vars

----------------------------------------------------------------------------
(* Every operation that writes a grade, one call at a time, at a clock drawn
   from the hours around the end of the match and of the entry windows *)

InitGradeDates ==
    /\ \E k \in ClockOffsets : TwoMatches(Jun15At18 + k)
    /\ req = [p \in Procs |-> IdleReq]

NextGradeDates ==
    \E p \in SeqProcs :
        \/ StartUpdateGrade(p)
        \/ StartUpdateOverallGrade(p)
        \/ StartUpdateGradeSms(p)
        \/ GetByIdStep(p)
        \/ GradeStep(p)
        \/ OverallGradeStep(p)
        \/ UpdateGradeSmsSteps(p)

SpecGradeDates == InitGradeDates /\ [][NextGradeDates]_vars

----------------------------------------------------------------------------
(* updateMatch and inbound SMS on a match that already carries its grades,
   its note and a report key, one call at a time *)

InitReschedule ==
    /\ \E grade \in Grades, overallGrade \in OverallGrades, refereeNote \in Notes,
          key \in ReportKeys :
        \E leagueId \in Leagues, leagueIdx \in LeagueIdxs, phone \in ObserverPhones :
          LET dto   == Dto(Jun15At18, 1, 2)
              mkey  == getUserReadableKey(dto.matchDate, leagueIdx, 0)
              other == MaxMatches + 1
              dto2  == Dto(Jun15At18, 3, 4)
              mkey2 == getUserReadableKey(dto2.matchDate, leagueIdx, 2)
              entered == dto.matchDate + MATCH_DURATION
          IN  /\ db = (1 :> [NewMatch(1, leagueId, dto, mkey, ToStr(1))
                                EXCEPT !.refereeGrade = grade,
                                       !.refereeGradeDate = entered,
                                       !.overallGrade = overallGrade,
                                       !.overallGradeDate = entered,
                                       !.refereeNote = refereeNote,
                                       !.observerReportKey = key])
                        @@ (other :> NewMatch(other, leagueId, dto2, mkey2, ToStr(2)))
              /\ nextId = other + 1
              /\ scheduled = { ScheduledMessage(1, dto.matchDate, mkey, phone, 1),
                               ScheduledMessage(2, dto2.matchDate, mkey2, phone, other) }
    /\ nextSmsId = 3
    /\ now = Jun16At18 + MATCH_DURATION
    /\ updateWriteFailed = FALSE
    /\ req = [p \in Procs |-> IdleReq]

NextReschedule ==
    \E p \in SeqProcs :
        \/ StartUpdate(p)
        \/ ValidateMatchStep(p)
        \/ GetByIdStep(p)
        \/ CancelStep(p)
        \/ ScheduleStep(p)
        \/ UpdateStep(p)
        \/ StartUpdateGradeSms(p)
        \/ UpdateGradeSmsSteps(p)

SpecReschedule == InitReschedule /\ [][NextReschedule]_vars

TypeOK ==
    /\ nextId \in 1..(MaxMatches + 2)
    /\ nextSmsId \in 1..(MaxSms + 1)
    /\ Stored \subseteq 1..(nextId - 1)
    /\ updateWriteFailed \in BOOLEAN

----------------------------------------------------------------------------
(* Properties *)

SameDay(a, b) == StartOfDay(a.matchDate) = StartOfDay(b.matchDate)
ShareTeam(a, b) ==
    {a.homeTeamId, a.awayTeamId} \cap {b.homeTeamId, b.awayTeamId} # {}

Done(r) == r.op # "none" /\ r.pc = "done"
Made(r, call, ok) ==
    \E i \in 1..Len(r.trace) : r.trace[i].call = call /\ r.trace[i].ok = ok
Called(r, call) == \E i \in 1..Len(r.trace) : r.trace[i].call = call
\* every call named `call` comes after a successful call named `earlier`
After(r, call, earlier) ==
    \A j \in 1..Len(r.trace) :
        r.trace[j].call = call =>
            \E i \in 1..(j - 1) : r.trace[i].call = earlier /\ r.trace[i].ok
SelfMatch(r) == r.dto.homeTeamId = r.dto.awayTeamId
PendingIds == {m.id : m \in scheduled}

\* C1: with createMatch and updateMatch run one at a time, no two stored
\* matches fall on the same calendar day and share a team.
C1_NoStoredConflict ==
    \A i, j \in Stored :
        i # j => ~(SameDay(db[i], db[j]) /\ ShareTeam(db[i], db[j]))

\* C2: createMatch and updateMatch with homeTeamId = awayTeamId end with a
\* bad-request error after validateMatch alone: no gateway call is made, no
\* repository write is made and the stored matches are as they were.
C2_SelfMatchRejected ==
    \A p \in Procs :
        LET r == req[p] IN
        (r.op \in {"createMatch", "updateMatch"} /\ SelfMatch(r)) =>
            /\ r.pc \in {"validateMatch", "done"}
            /\ r.pc = "done" => r.result = "bad_request"
            /\ \A i \in 1..Len(r.trace) : r.trace[i].call = "validateMatch"
            /\ db = r.dbBefore

C2_Witness ==
    \E p \in Procs :
        /\ Done(req[p]) /\ req[p].op = "updateMatch" /\ SelfMatch(req[p])
        /\ req[p].matchId \in Stored
        /\ req[p].result = "bad_request"

\* C3: a createMatch whose schedule call failed ends with that error and has
\* written nothing: the stored matches are the ones stored when it started.
C3_ScheduleFailureStoresNothing ==
    \A p \in Procs :
        LET r == req[p] IN
        (r.op = "createMatch" /\ Made(r, "scheduleSms", FALSE)) =>
            /\ Done(r) /\ r.result = "service_unavailable"
            /\ ~Called(r, "save")
            /\ db = r.dbBefore

C3_Witness ==
    \E p \in Procs :
        /\ Done(req[p]) /\ req[p].op = "createMatch"
        /\ Made(req[p], "scheduleSms", FALSE)
        /\ Stored # {}

\* C4: after a createMatch or updateMatch that returned successfully, the row's
\* observerSmsId is the message id the schedule call of that operation returned
\* and its userReadableKey is the key of the message that call scheduled.
C4_RowNamesScheduledMessage ==
    \A p \in Procs :
        LET r == req[p] IN
        (Done(r) /\ r.op \in {"createMatch", "updateMatch"} /\ r.result = "ok") =>
            \E i \in 1..Len(r.trace) :
                /\ r.trace[i].call = "scheduleSms" /\ r.trace[i].ok
                /\ r.matchId \in Stored
                /\ db[r.matchId].observerSmsId = ToStr(r.trace[i].arg)
                /\ db[r.matchId].userReadableKey = r.trace[i].text
                /\ \E m \in scheduled :
                      m.id = r.trace[i].arg /\ m.key = db[r.matchId].userReadableKey

C4_Witness ==
    \E p \in Procs :
        LET r == req[p] IN
        /\ Done(r) /\ r.op = "updateMatch" /\ r.result = "ok"
        /\ r.dbBefore[r.matchId].userReadableKey # db[r.matchId].userReadableKey
        /\ r.dbBefore[r.matchId].observerSmsId # db[r.matchId].observerSmsId

\* C5: updateMatch validates, then cancels the notification whose id the row
\* holds, then schedules, then writes the row: a schedule call is made only
\* after a successful cancel, a write only after a successful schedule, and
\* after a failed validation or a failed cancel neither is made.
C5_UpdateOrder ==
    \A p \in Procs :
        LET r == req[p] IN
        r.op = "updateMatch" =>
            /\ After(r, "cancelSMS", "validateMatch")
            /\ After(r, "scheduleSms", "cancelSMS")
            /\ After(r, "update", "scheduleSms")
            /\ \A i \in 1..Len(r.trace) :
                  r.trace[i].call = "cancelSMS" =>
                      /\ r.matchId \in DOMAIN r.dbBefore
                      /\ r.trace[i].arg = ToNumber(r.dbBefore[r.matchId].observerSmsId)
            /\ (Made(r, "validateMatch", FALSE) \/ Made(r, "cancelSMS", FALSE)) =>
                  /\ ~Called(r, "scheduleSms") /\ ~Called(r, "update")
                  /\ db = r.dbBefore

C5_Witness ==
    \E p \in Procs :
        LET r == req[p] IN
        /\ Done(r) /\ r.op = "updateMatch" /\ r.result = "ok"
        /\ Made(r, "cancelSMS", TRUE) /\ Made(r, "scheduleSms", TRUE)
        /\ Made(r, "update", TRUE)

AtMostOnePendingPerMatch ==
    \A m1, m2 \in scheduled :
        (m1.forMatch # NoId /\ m1.forMatch = m2.forMatch) => m1 = m2

C7_NoCanceledIdLeft ==
    \A p \in Procs :
        LET r == req[p] IN
        (Done(r) /\ r.op = "updateMatch" /\ Made(r, "cancelSMS", TRUE)
            /\ Made(r, "scheduleSms", FALSE) /\ r.matchId \in Stored) =>
            \A i \in 1..Len(r.trace) :
                r.trace[i].call = "cancelSMS" =>
                    ToNumber(db[r.matchId].observerSmsId) # r.trace[i].arg

\* C8: removeMatch cancels the notification whose id the row holds, then
\* sends the one-way 'has been canceled' SMS to the given number, then deletes
\* the row; the row is deleted only after both calls have succeeded.
C8_RemoveOrder ==
    \A p \in Procs :
        LET r == req[p] IN
        r.op = "removeMatch" =>
            /\ After(r, "sendOneWaySms", "cancelSMS")
            /\ After(r, "delete", "sendOneWaySms")
            /\ After(r, "delete", "cancelSMS")
            /\ \A i \in 1..Len(r.trace) :
                  /\ r.trace[i].call = "cancelSMS" =>
                        /\ r.matchId \in DOMAIN r.dbBefore
                        /\ r.trace[i].arg = ToNumber(r.dbBefore[r.matchId].observerSmsId)
                  /\ r.trace[i].call = "sendOneWaySms" =>
                        /\ r.trace[i].to = r.phone
                        /\ r.trace[i].text =
                              CanceledText(r.dbBefore[r.matchId].userReadableKey)
            /\ (r.matchId \in DOMAIN r.dbBefore /\ r.matchId \notin Stored) =>
                  /\ Made(r, "cancelSMS", TRUE)
                  /\ Made(r, "sendOneWaySms", TRUE)

C8_Witness ==
    \E p \in Procs :
        LET r == req[p] IN
        /\ Done(r) /\ r.op = "removeMatch" /\ r.result = "ok"
        /\ r.matchId \in DOMAIN r.dbBefore /\ r.matchId \notin Stored
        /\ Stored # {}

\* C9: a removeMatch whose cancel call failed ends with a service-unavailable
\* error, sends no one-way SMS, deletes nothing and leaves the row as it was.
C9_CancelFailureKeepsMatch ==
    \A p \in Procs :
        LET r == req[p] IN
        (r.op = "removeMatch" /\ Made(r, "cancelSMS", FALSE)) =>
            /\ Done(r) /\ r.result = "service_unavailable"
            /\ ~Called(r, "sendOneWaySms")
            /\ ~Called(r, "delete")
            /\ db = r.dbBefore
            /\ r.matchId \in Stored

C9_Witness ==
    \E p \in Procs :
        LET r == req[p] IN
        /\ Done(r) /\ r.op = "removeMatch" /\ Made(r, "cancelSMS", FALSE)
        /\ r.matchId \in Stored
        /\ ToNumber(db[r.matchId].observerSmsId) \in PendingIds

\* C10: updateGrade on a match that starts at T is not rejected when no grade
\* has been entered yet, whatever the grade and the time; when a grade has been
\* entered it does not succeed before T + 4 hours and is not rejected from
\* T + 4 hours on.
C10_GradeReentryWindow ==
    \A p \in Procs :
        LET r == req[p] IN
        (Done(r) /\ r.op = "updateGrade" /\ Called(r, "grade")) =>
            LET before  == r.dbBefore[r.matchId]
                entered == before.refereeGrade # Null
                t       == r.trace[Len(r.trace)].arg
            IN  /\ ~entered => r.result # "bad_request"
                /\ (entered /\ t < before.matchDate + 4) => r.result # "ok"
                /\ (entered /\ t >= before.matchDate + 4) => r.result # "bad_request"

\* C11: updateOverallGrade on a match that starts at T is not rejected when no
\* overall grade has been entered yet, whatever the time; when one has been
\* entered it is rejected before T + 50 hours, leaving the row as it was, and
\* is not rejected from T + 50 hours on; the referee grade and its date play
\* no part in this.
C11_OverallGradeReentryWindow ==
    \A p \in Procs :
        LET r == req[p] IN
        (Done(r) /\ r.op = "updateOverallGrade" /\ Called(r, "overallGrade")) =>
            LET before  == r.dbBefore[r.matchId]
                entered == before.overallGrade # NoText
                t       == r.trace[Len(r.trace)].arg
            IN  /\ ~entered => r.result # "bad_request"
                /\ (entered /\ t < before.matchDate + 50) =>
                        r.result = "bad_request" /\ db = r.dbBefore
                /\ (entered /\ t >= before.matchDate + 50) => r.result # "bad_request"
                /\ r.result = "ok" =>
                        /\ db[r.matchId].overallGrade = r.text
                        /\ db[r.matchId].overallGradeDate = t

\* a re-entry rejected after the referee grade's window has closed, on a match
\* without a referee grade
C11_Witness ==
    \E p \in Procs :
        LET r == req[p] IN
        /\ Done(r) /\ r.op = "updateOverallGrade" /\ Called(r, "overallGrade")
        /\ r.result = "bad_request"
        /\ r.dbBefore[r.matchId].refereeGrade = Null
        /\ r.trace[Len(r.trace)].arg > r.dbBefore[r.matchId].matchDate + 4

GradingOps == {"updateGrade", "updateOverallGrade", "updateRefereeNote"}
OwnFields(op) ==
    CASE op = "updateGrade"        -> {"refereeGrade", "refereeGradeDate"}
      [] op = "updateOverallGrade" -> {"overallGrade", "overallGradeDate"}
      [] op = "updateRefereeNote"  -> {"refereeNote"}

\* C12: a finished updateGrade, updateOverallGrade or updateRefereeNote leaves
\* the set of stored matches, every other match and every field of its own
\* match outside its own fields as they were; updateRefereeNote is never
\* rejected with a bad request.
C12_GradingFrame ==
    \A p \in Procs :
        LET r == req[p] IN
        (Done(r) /\ r.op \in GradingOps) =>
            /\ DOMAIN db = DOMAIN r.dbBefore
            /\ \A i \in DOMAIN db :
                  \A f \in DOMAIN db[i] :
                      (i # r.matchId \/ f \notin OwnFields(r.op)) =>
                          db[i][f] = r.dbBefore[i][f]
            /\ r.op = "updateRefereeNote" => r.result # "bad_request"

\* an overall grade written onto a match that already has a referee grade
C12_Witness ==
    \E p \in Procs :
        LET r == req[p] IN
        /\ Done(r) /\ r.op = "updateOverallGrade" /\ r.result = "ok"
        /\ db[r.matchId].refereeGrade = 5
        /\ db[r.matchId].refereeGradeDate < db[r.matchId].overallGradeDate
        /\ db[r.matchId].refereeNote # NoText
        /\ Cardinality(Stored) > 1

\* the one-way SMS calls a request made
Replies(r) == {i \in 1..Len(r.trace) : r.trace[i].call = "sendOneWaySms"}
Answered(r, text) ==
    /\ Cardinality(Replies(r)) = 1
    /\ \A i \in Replies(r) : r.trace[i].text = text

\* C13: every finished updateGradeSms call has made exactly one one-way SMS
\* call, whatever the body and the state of the match.
C13_ExactlyOneReply ==
    \A p \in Procs :
        LET r == req[p] IN
        (Done(r) /\ r.op = "updateGradeSms") => Cardinality(Replies(r)) = 1

\* the shape of an SMS body, read off its characters
Count(s, ch) == Cardinality({i \in 1..Len(s) : s[i] = ch})
Before(s, ch) == SubSeq(s, 1, (CHOOSE i \in 1..Len(s) : s[i] = ch) - 1)
Behind(s, ch) == SubSeq(s, (CHOOSE i \in 1..Len(s) : s[i] = ch) + 1, Len(s))
IsNumeral(s) ==
    /\ s # <<>>
    /\ \A i \in 1..Len(s) : s[i] \in {DigitChars[d] : d \in 1..10}
OneHash(s)  == Count(s, "#") = 1
OneSlash(s) == Count(Behind(s, "#"), "/") = 1
\* the reply the first failing check asks for, NoText when none fails
SyntaxReply(s) ==
    IF ~OneHash(s) THEN InvalidSmsFormat
    ELSE IF Before(s, "#") = <<>> THEN InvalidMatchKey
    ELSE IF ~OneSlash(s) THEN InvalidSmsGradeFormat
    ELSE IF ~IsNumeral(Before(Behind(s, "#"), "/")) THEN InvalidGrade
    ELSE NoText

\* C14: a finished updateGradeSms call whose body fails a check of the order
\* '#' count, empty key, '/' count, non-numeric grade has answered with the
\* reply of the first failing check and has looked no match up.
C14_FirstFailingCheckReplies ==
    \A p \in Procs :
        LET r == req[p] IN
        (Done(r) /\ r.op = "updateGradeSms" /\ SyntaxReply(r.text) # NoText) =>
            /\ Answered(r, SyntaxReply(r.text))
            /\ ~Called(r, "getByUserReadableKey")

\* C15 as stated: a finished updateGradeSms call whose body has not exactly one
\* '#', or whose second segment has not exactly one '/', has answered
\* 'Invalid sms format.' and has looked no match up, whatever the key segment.
C15_ShapeMismatchRepliesFormat ==
    \A p \in Procs :
        LET r == req[p] IN
        (Done(r) /\ r.op = "updateGradeSms"
                 /\ (~OneHash(r.text) \/ ~OneSlash(r.text))) =>
            /\ Answered(r, InvalidSmsFormat)
            /\ ~Called(r, "getByUserReadableKey")

\* C15: a finished updateGradeSms call has answered 'Invalid sms format.' when
\* its body has not exactly one '#', whatever the key segment; otherwise
\* 'Invalid match key.' when the key segment is empty, whatever the second
\* segment; otherwise 'Invalid sms grade format.' when the second segment has
\* not exactly one '/'; and has looked no match up in any of these cases.
C15_HashGateThenKeyThenSlashGate ==
    \A p \in Procs :
        LET r == req[p] IN
        (Done(r) /\ r.op = "updateGradeSms") =>
            /\ ~OneHash(r.text) =>
                    Answered(r, InvalidSmsFormat) /\ ~Called(r, "getByUserReadableKey")
            /\ (OneHash(r.text) /\ Before(r.text, "#") = <<>>) =>
                    Answered(r, InvalidMatchKey) /\ ~Called(r, "getByUserReadableKey")
            /\ (OneHash(r.text) /\ Before(r.text, "#") # <<>> /\ ~OneSlash(r.text)) =>
                    /\ Answered(r, InvalidSmsGradeFormat)
                    /\ ~Called(r, "getByUserReadableKey")

\* the key of a stored match, a grade segment that is not a number and no '/'
C15_Witness ==
    \E p \in Procs :
        LET r == req[p] IN
        /\ Done(r) /\ r.op = "updateGradeSms"
        /\ OneHash(r.text) /\ KeyRows(Before(r.text, "#")) # {}
        /\ Behind(r.text, "#") = <<"x">>
        /\ Answered(r, InvalidSmsGradeFormat)

\* C16: a finished updateGradeSms call whose key resolved to a match on which
\* a referee grade had been entered, whatever its value, has left that grade
\* and its date as they were and has answered 'Grade has already been
\* entered.'.
C16_EnteredGradeKept ==
    \A p \in Procs :
        LET r == req[p] IN
        (Done(r) /\ r.op = "updateGradeSms" /\ r.match.id # NoId
                 /\ r.dbBefore[r.match.id].refereeGrade # Null) =>
            /\ db[r.match.id].refereeGrade = r.dbBefore[r.match.id].refereeGrade
            /\ db[r.match.id].refereeGradeDate = r.dbBefore[r.match.id].refereeGradeDate
            /\ Answered(r, GradeAlreadyEntered)

\* the time a request made its call `call`
TimeOf(r, call) ==
    r.trace[CHOOSE i \in 1..Len(r.trace) : r.trace[i].call = call].arg

\* C17: a finished updateGradeSms call with a well-formed body whose key
\* resolved to a match that starts at T and had no referee grade: checked
\* before T + 2 hours it has answered 'Cannot enter a grade before match end.'
\* and the stored matches are as they were; checked at or after T + 2 hours,
\* before T + 4 hours included, it has not given that answer and has saved the
\* grade of the body with the time of the save as refereeGradeDate (the row
\* carries both when the save succeeded).
C17_SmsAfterMatchEnd ==
    \A p \in Procs :
        LET r == req[p] IN
        (Done(r) /\ r.op = "updateGradeSms" /\ SyntaxReply(r.text) = NoText
                 /\ r.match.id # NoId
                 /\ r.dbBefore[r.match.id].refereeGrade = Null) =>
            LET t == TimeOf(r, "requireSmsMatchKeyValid")
                T == r.dbBefore[r.match.id].matchDate
            IN  /\ t < T + 2 => Answered(r, BeforeMatchEnd) /\ db = r.dbBefore
                /\ t >= T + 2 =>
                      /\ \A i \in Replies(r) : r.trace[i].text # BeforeMatchEnd
                      /\ Called(r, "saveGrade")
                      /\ Made(r, "saveGrade", TRUE) =>
                            /\ db[r.match.id].refereeGrade =
                                   DigitsValue(Before(Behind(r.text, "#"), "/"))
                            /\ db[r.match.id].refereeGradeDate = TimeOf(r, "saveGrade")
                            /\ db[r.match.id].refereeGradeDate >= t

\* a grade 5 entered by SMS between T + 2 hours and T + 4 hours
C17_Witness ==
    \E p \in Procs :
        LET r == req[p] IN
        /\ Done(r) /\ r.op = "updateGradeSms" /\ r.result = "ok"
        /\ r.match.id # NoId
        /\ r.dbBefore[r.match.id].refereeGrade = Null
        /\ db[r.match.id].refereeGrade = 5
        /\ db[r.match.id].refereeGradeDate >= db[r.match.id].matchDate + 2
        /\ db[r.match.id].refereeGradeDate < db[r.match.id].matchDate + 4

\* C18: every finished updateGradeSms call has returned without an error,
\* whatever the body, the state of the match and the answers of the gateway.
C18_NoErrorSurfaces ==
    \A p \in Procs :
        LET r == req[p] IN
        (Done(r) /\ r.op = "updateGradeSms") => r.result = "ok"

\* C19: no two stored matches without a referee grade carry the same
\* userReadableKey.
C19_KeyNamesOneUngradedMatch ==
    \A i, j \in Stored :
        (i # j /\ db[i].refereeGrade = Null /\ db[j].refereeGrade = Null) =>
            db[i].userReadableKey # db[j].userReadableKey

TwoDigits(n) == <<DigitChars[(n \div 10) + 1], DigitChars[(n % 10) + 1]>>

\* C20: for a date and indices from 0 to 98, getUserReadableKey returns ten
\* digits: the UTC day of the month, the month counted from 1, the year modulo
\* 100, the league index plus 1 and the home-team index plus 1, two digits
\* each; 2024-06-15 with indices 0 and 1 gives '1506240102'.
C20_KeyLayout ==
    \A p \in Procs :
        LET r == req[p] IN
        (Done(r) /\ r.op = "getUserReadableKey") =>
            LET t == r.dto.matchDate IN
            /\ Len(r.matchKey) = 10
            /\ r.matchKey = TwoDigits(UTCDate(t)) \o TwoDigits(UTCMonth(t))
                              \o TwoDigits(UTCFullYear(t) % 100)
                              \o TwoDigits(r.leagueIdx + 1)
                              \o TwoDigits(r.homeTeamIdx + 1)
            /\ (t = Jun15At18 /\ r.leagueIdx = 0 /\ r.homeTeamIdx = 1) =>
                  r.matchKey = <<"1", "5", "0", "6", "2", "4", "0", "1", "0", "2">>
            /\ t = 59 * 24 => SubSeq(r.matchKey, 1, 6) = <<"2", "9", "0", "2", "2", "4">>
            /\ t = 730 * 24 + 23 => SubSeq(r.matchKey, 1, 6) = <<"3", "1", "1", "2", "2", "5">>
            /\ t = 27759 * 24 => SubSeq(r.matchKey, 1, 6) = <<"0", "1", "0", "1", "0", "0">>

\* the key of the reference date with the largest indices
C20_Witness ==
    \E p \in Procs :
        LET r == req[p] IN
        /\ Done(r) /\ r.op = "getUserReadableKey"
        /\ r.dto.matchDate = Jun15At18 /\ r.leagueIdx = 98 /\ r.homeTeamIdx = 98
        /\ r.matchKey = <<"1", "5", "0", "6", "2", "4", "9", "9", "9", "9">>

ReportOps == {"updateReportData", "removeReport", "getKeyForReport"}
ReportSlots == {"observerReportKey", "mentorReportKey", "tvReportKey"}

\* C21: a finished updateReportData has put its key into the slot of its
\* report type, a finished removeReport has cleared that slot, a finished
\* getKeyForReport has returned what that slot holds; the slot of a type is one
\* of the three, the same for the three operations; the other two slots, every
\* other field and every other match are as they were, and nothing at all has
\* changed when the operation failed or only read.
C21_ReportSlot ==
    \A p \in Procs :
        LET r == req[p] IN
        (Done(r) /\ r.op \in ReportOps) =>
            LET slot == ReportFieldNames[r.reportType] IN
            /\ slot \in ReportSlots
            /\ (r.op = "updateReportData" /\ r.result = "ok") =>
                    db[r.matchId][slot] = r.text
            /\ (r.op = "removeReport" /\ r.result = "ok") =>
                    db[r.matchId][slot] = NoText
            /\ (r.op = "getKeyForReport" /\ r.result = "ok") =>
                    r.returned = db[r.matchId][slot]
            /\ (r.op = "getKeyForReport" \/ r.result # "ok") => db = r.dbBefore
            /\ DOMAIN db = DOMAIN r.dbBefore
            /\ \A i \in DOMAIN db : \A f \in DOMAIN db[i] :
                  (i # r.matchId \/ f # slot) => db[i][f] = r.dbBefore[i][f]

\* a key read back from one slot while another slot holds another key
C21_Witness ==
    \E p \in Procs :
        LET r == req[p] IN
        /\ Done(r) /\ r.op = "getKeyForReport" /\ r.result = "ok"
        /\ r.reportType = "Mentor" /\ r.returned = <<"k", "1">>
        /\ db[r.matchId].tvReportKey = <<"k", "2">>
        /\ db[r.matchId].observerReportKey = NoText

\* C22: a finished updateReportData, removeReport or getKeyForReport made for
\* a user whose role does not allow the report type for the action has ended
\* with a forbidden error, has changed no stored match and has returned no key.
C22_ReportPermissionEnforced ==
    \A p \in Procs :
        LET r == req[p] IN
        (Done(r) /\ r.op \in ReportOps
                 /\ r.reportType \notin GradeFilePermissions[r.role][ActionOf(r.op)]) =>
            /\ r.result = "forbidden"
            /\ db = r.dbBefore
            /\ r.returned = NoText

\* C23: the view getMatchInfo returns shows 'hidden' as observer when
\* hideObserver is set and the match date is after the clock, and the
\* observer's full name in every other case, the match starting right now
\* included; the referee is the referee's full name and the other fifteen
\* fields are those of the match.
C23_ObserverHiddenWhenUpcoming ==
    \A p \in Procs :
        LET r == req[p] IN
        (Done(r) /\ r.op = "getMatchInfo") =>
            /\ r.info.observer = <<"hidden">> <=>
                    (r.hideObserver /\ r.match.matchDate > now)
            /\ r.info.observer # <<"hidden">> =>
                    r.info.observer = Users[r.match.observerId].firstName \o <<" ">>
                                        \o Users[r.match.observerId].lastName
            /\ r.info.referee = Users[r.match.refereeId].firstName \o <<" ">>
                                  \o Users[r.match.refereeId].lastName
            /\ DOMAIN r.info = (DOMAIN r.match \ {"refereeId", "observerId", "observerSmsId"})
                                  \cup {"referee", "observer"}
            /\ \A f \in DOMAIN r.info \ {"referee", "observer"} :
                  r.info[f] = r.match[f]

\* the observer of a graded match hidden an hour before the match
C23_Witness ==
    \E p \in Procs :
        LET r == req[p] IN
        /\ Done(r) /\ r.op = "getMatchInfo"
        /\ r.hideObserver /\ r.match.matchDate = now + 1
        /\ r.match.observerReportKey # NoText
        /\ r.info.observer = <<"hidden">>
        /\ r.info.referee = <<"Di", " ", "Ref">>

\* the request whose save created row i
CreatedBy(p, i) ==
    /\ req[p].op = "createMatch"
    /\ \E k \in 1..Len(req[p].trace) :
          req[p].trace[k] = Event("save", i, NoText, "", TRUE)

\* C24: with two createMatch calls in flight, validateMatch still keeps every
\* created match clear of the matches stored before the calls began; two
\* stored matches on the same day sharing a team are then always the two
\* matches the calls created, each call having passed its validateMatch with
\* no conflicting row found: nothing orders one call's save before the other
\* call's check.
C24_ConflictOnlyBetweenRacers ==
    \A i, j \in Stored :
        (i # j /\ SameDay(db[i], db[j]) /\ ShareTeam(db[i], db[j])) =>
            \E p, q \in Procs :
                /\ p # q
                /\ CreatedBy(p, i) /\ CreatedBy(q, j)
                /\ i \notin DOMAIN req[p].dbBefore /\ j \notin DOMAIN req[q].dbBefore
                /\ \A u \in {p, q} :
                      \E k \in 1..Len(req[u].trace) :
                          req[u].trace[k] = Event("validateMatch", NoId, NoText, "", TRUE)

\* both calls finished without an error and their matches conflict
C24_Witness ==
    /\ \A p \in Procs : Done(req[p]) /\ req[p].op = "createMatch" /\ req[p].result = "ok"
    /\ \E i, j \in Stored :
          /\ i # j /\ SameDay(db[i], db[j]) /\ ShareTeam(db[i], db[j])
          /\ i \notin DOMAIN req[1].dbBefore /\ j \notin DOMAIN req[1].dbBefore

\* C25: a finished createMatch whose scheduleSms succeeded and whose save
\* failed has made no cancel call and has ended with the storage error; the
\* notification it scheduled is still pending at the gateway and no stored
\* match carries its id.
C25_FailedSaveLeavesOrphan ==
    \A p \in Procs :
        LET r == req[p] IN
        (Done(r) /\ r.op = "createMatch" /\ Made(r, "scheduleSms", TRUE)
                 /\ Made(r, "save", FALSE)) =>
            /\ ~Called(r, "cancelSMS")
            /\ r.result = "storage_error"
            /\ db = r.dbBefore
            /\ ToNumber(r.observerSmsId) \in PendingIds
            /\ \A i \in Stored : db[i].observerSmsId # r.observerSmsId

\* a second match lost at the save: its notification is pending, unreferenced
C25_Witness ==
    \E p \in Procs :
        LET r == req[p] IN
        /\ Done(r) /\ r.op = "createMatch" /\ r.result = "storage_error"
        /\ Stored # {}
        /\ \E m \in scheduled :
              /\ ToStr(m.id) = r.observerSmsId
              /\ m.forMatch = NoId
              /\ m.matchDate = r.dto.matchDate

\* C26: a finished updateGradeSms call whose body has one '#', a key and one
\* '/', with a grade segment that is empty or not a number, has saved no
\* grade, has left the stored matches as they were and has answered nothing
\* but 'Invalid grade.'.
C26_NoGradeFromNonNumber ==
    \A p \in Procs :
        LET r == req[p] IN
        (Done(r) /\ r.op = "updateGradeSms" /\ OneHash(r.text)
                 /\ Before(r.text, "#") # <<>> /\ OneSlash(r.text)
                 /\ ~IsNumeral(Before(Behind(r.text, "#"), "/"))) =>
            /\ ~Called(r, "saveGrade")
            /\ db = r.dbBefore
            /\ \A i \in Replies(r) : r.trace[i].text = InvalidGrade

\* C27: a finished call that reached cancelSMS with a stored observerSmsId
\* that is not a numeric string has ended with an error and has sent no cancel
\* request to the gateway, with zero, not-a-number or any other value.
C27_NonNumericIdFailsBeforeGateway ==
    \A p \in Procs :
        LET r == req[p] IN
        (Done(r) /\ r.op = "removeMatch" /\ r.match.id # NoId
                 /\ ~IsNumeral(r.match.observerSmsId)) =>
            /\ r.result # "ok"
            /\ \A i \in 1..Len(r.trace) : r.trace[i].call # "cancelSMS"

\* C28: for a league index or a home-team index of 99 or more,
\* getUserReadableKey still returns ten characters, each index field being
\* the two low-order digits of the index plus one.
C28_OverflowTruncated ==
    \A p \in Procs :
        LET r == req[p] IN
        (Done(r) /\ r.op = "getUserReadableKey"
                 /\ (r.leagueIdx >= 99 \/ r.homeTeamIdx >= 99)) =>
            /\ Len(r.matchKey) = 10
            /\ SubSeq(r.matchKey, 7, 10) = TwoDigits((r.leagueIdx + 1) % 100)
                                             \o TwoDigits((r.homeTeamIdx + 1) % 100)

\* an SMS with a well-formed body and a grade other than 0 for match i
GradesMatch(r, i) ==
    /\ r.op = "updateGradeSms" /\ SyntaxReply(r.text) = NoText
    /\ DigitsValue(Before(Behind(r.text, "#"), "/")) # 0
    /\ r.match.id = i

\* C29: when two inbound SMS with a grade for the same match, which had no
\* referee grade, have both been handled, at most one of them has saved a
\* grade, and if one has, the other has been answered 'Grade has already been
\* entered.'.
C29_GradeSetOnceUnderRace ==
    \A p, q \in Procs : \A i \in Stored :
        (p # q /\ Done(req[p]) /\ Done(req[q])
               /\ GradesMatch(req[p], i) /\ GradesMatch(req[q], i)
               /\ req[p].dbBefore[i].refereeGrade = Null
               /\ req[q].dbBefore[i].refereeGrade = Null
               /\ Made(req[p], "saveGrade", TRUE)) =>
            /\ ~Made(req[q], "saveGrade", TRUE)
            /\ \E k \in Replies(req[q]) : req[q].trace[k].text = GradeAlreadyEntered

\* C30: when two updateMatch calls on the same match have both completed
\* without an error, the notifications pending at the gateway for that match
\* are exactly the one whose id the row holds.
C30_OnePendingAfterTwoUpdates ==
    \A p, q \in Procs :
        (p # q /\ Done(req[p]) /\ Done(req[q])
               /\ req[p].op = "updateMatch" /\ req[q].op = "updateMatch"
               /\ req[p].matchId = req[q].matchId
               /\ req[p].result = "ok" /\ req[q].result = "ok") =>
            {m.id : m \in {n \in scheduled : n.forMatch = req[p].matchId}}
                = {ToNumber(db[req[p].matchId].observerSmsId)}

\* C31: every stored match that has a referee grade has a referee grade date
\* and every stored match that has an overall grade has an overall grade
\* date; a finished updateGrade, updateGradeSms or updateOverallGrade whose
\* save succeeded has left the date of its grade at the time of that save.
C31_GradeHasDate ==
    /\ \A i \in Stored :
          /\ db[i].refereeGrade # Null => db[i].refereeGradeDate # Null
          /\ db[i].overallGrade # NoText => db[i].overallGradeDate # Null
    /\ \A p \in Procs :
          LET r == req[p] IN
          /\ (Done(r) /\ r.op = "updateGrade" /\ Made(r, "grade", TRUE)) =>
                db[r.matchId].refereeGradeDate = TimeOf(r, "grade")
          /\ (Done(r) /\ r.op = "updateGradeSms" /\ Made(r, "saveGrade", TRUE)) =>
                db[r.match.id].refereeGradeDate = TimeOf(r, "saveGrade")
          /\ (Done(r) /\ r.op = "updateOverallGrade" /\ Made(r, "overallGrade", TRUE)) =>
                db[r.matchId].overallGradeDate = TimeOf(r, "overallGrade")

\* a grade entered by SMS after the match, and an overall grade
C31_Witness ==
    \E i \in Stored :
        /\ db[i].refereeGrade = 5
        /\ db[i].refereeGradeDate > db[i].matchDate + MATCH_DURATION
        /\ db[i].overallGrade # NoText
        /\ db[i].overallGradeDate = db[i].refereeGradeDate
        /\ \E p \in Procs : Done(req[p]) /\ req[p].op = "updateGradeSms"
                             /\ Made(req[p], "saveGrade", TRUE)

\* the fields updateMatch is not to touch
KeptByUpdate ==
    { "id", "leagueId", "refereeGrade", "refereeGradeDate", "overallGrade",
      "overallGradeDate", "refereeNote", "observerReportKey", "mentorReportKey",
      "tvReportKey" }

\* a finished updateMatch has left those fields of its match, every other
\* match and the set of stored matches as they were
UpdateKeepsGrades ==
    \A p \in Procs :
        LET r == req[p] IN
        (Done(r) /\ r.op = "updateMatch") =>
            /\ DOMAIN db = DOMAIN r.dbBefore
            /\ \A i \in DOMAIN db : \A f \in DOMAIN db[i] :
                  (i # r.matchId \/ f \in KeptByUpdate) => db[i][f] = r.dbBefore[i][f]

\* C32: a finished updateMatch has left refereeGrade, refereeGradeDate,
\* overallGrade, overallGradeDate, refereeNote, the three report keys and
\* leagueId of its match as they were, whatever it did to matchDate; and a
\* finished updateGradeSms with a well-formed body that resolved to a match
\* graded before it was moved to another date has found it graded, has left
\* its grade and grade date as they were and has been answered 'Grade has
\* already been entered.'.
C32_RescheduledStaysGraded ==
    /\ UpdateKeepsGrades
    /\ \A p \in Procs :
          LET r == req[p] IN
          (Done(r) /\ r.op = "updateGradeSms" /\ SyntaxReply(r.text) = NoText
                   /\ r.match.id = 1 /\ r.dbBefore[1].matchDate # Jun15At18) =>
              /\ r.dbBefore[1].refereeGrade # Null
              /\ db[1].refereeGrade = r.dbBefore[1].refereeGrade
              /\ db[1].refereeGradeDate = r.dbBefore[1].refereeGradeDate
              /\ \E k \in Replies(r) : r.trace[k].text = GradeAlreadyEntered

====
